---- MODULE Spec2Model ----
(***************************************************************************)
(* autoendpoint: the WebPush router (routers/webpush.rs), its error type    *)
(* (server/routers/mod.rs) and the extractor of the notification headers   *)
(* (server/extractors/notification_headers.rs).                            *)
(*                                                                         *)
(* One call of WebPushRouter::route_notification is modelled as a state    *)
(* machine whose steps are the segments of the async fn between two        *)
(* `.await` points: each action performs one outbound call (a node call or *)
(* a storage operation), draws its outcome, and runs the code that follows *)
(* up to the next await or to the return.  The storage rows live outside   *)
(* the router, so subscribers may reconnect, disconnect or be dropped      *)
(* between two steps.                                                      *)
(***************************************************************************)
EXTENDS Integers, Sequences, FiniteSets, TLC

VARIABLES
    pc,            \* position of the call inside route_notification
    notification,  \* the &Notification argument (immutable)
    user,          \* the `user` binding: line 29, rebound at line 70
    calls,         \* every outbound call made so far, with its outcome
    metrics,       \* every metric sent to the StatsdClient so far
    result,        \* the ApiResult<RouterResponse> returned, None before
    db,            \* the storage rows: the user row and the stored messages
    request,       \* the &HttpRequest and has_data given to from_request
    extracted      \* the ApiResult<NotificationHeaders> it returned, None before

vars == <<pc, notification, user, calls, metrics, result, db, request, extracted>>

----------------------------------------------------------------------------
(* Option<T>: None is the empty sequence, Some(x) the one-element one.     *)

None == <<>>
Some(x) == <<x>>
IsSome(o) == o # None
Unwrap(o) == o[1]

----------------------------------------------------------------------------
(* Bounds and input sets.                                                  *)

\* connected_at timestamps written by reconnections stay within 1..MaxConnectedAt
MaxConnectedAt == 3

Uaid == "uaid"
Nodes == {"N1", "N2"}
Months == {"2020_06"}
\* DynamoStorage::current_message_month, the store-wide default partition
current_message_month == "2020_07"
MessageIds == {"m1"}
Ttls == {0, 60}
\* Notification::data: Option<String>, a string being a sequence of characters
Payloads == {None, Some(<<"a", "b", "c">>)}
endpoint_url == "https://endpoint/"

\* StatusCode values
OK == 200
ACCEPTED == 202
GONE == 410
SERVICE_UNAVAILABLE == 503

\* What a node may answer (Ok(response) with a status) or Err(reqwest::Error)
NodeStatuses == {200, 202, 404, 503}
HttpResults ==
    [ok : {TRUE}, status : NodeStatuses] \cup {[ok |-> FALSE, status |-> 0]}

\* autopush_common::errors::Error values a storage operation may fail with
NoUserRecord == [kind |-> "Msg", msg |-> "No user record found"]
DbErrors ==
    { [kind |-> "Msg", msg |-> "Error fetching user"],
      [kind |-> "RusotoError", msg |-> "timeout"] }

Users ==
    [ uaid : {Uaid},
      node_id : {None} \cup {Some(n) : n \in Nodes},
      connected_at : 1..MaxConnectedAt,
      current_month : {None} \cup {Some(m) : m \in Months} ]

----------------------------------------------------------------------------
(* RouterError and ApiErrorKind (server/routers/mod.rs).                   *)

RouterError_SaveDb(e) == [variant |-> "SaveDb", source |-> Some(e)]
RouterError_UserWasDeleted == [variant |-> "UserWasDeleted", source |-> None]

ApiErrorKind_Router(e) == [kind |-> "Router", error |-> e]
ApiErrorKind_Database(e) ==
    [kind |-> "Database", error |-> [variant |-> "Database", source |-> Some(e)]]

\* faulty variant: the two status codes are exchanged
RouterError_status_exchanged(e) ==
    CASE e.variant = "SaveDb" -> GONE
      [] e.variant = "UserWasDeleted" -> SERVICE_UNAVAILABLE

RouterError_status(e) ==
    CASE e.variant = "SaveDb" -> SERVICE_UNAVAILABLE
      [] e.variant = "UserWasDeleted" -> GONE

RouterError_errno(e) ==
    CASE e.variant = "SaveDb" -> 201
      [] e.variant = "UserWasDeleted" -> 105

----------------------------------------------------------------------------
(* The helpers of WebPushRouter (routers/webpush.rs, lines 120-217).       *)

\* Notification::serialize_for_delivery: the message without the subscription
serialize_for_delivery(n) ==
    [message_id |-> n.message_id, headers |-> n.headers, data |-> n.data]

\* send_notification: PUT {node_id}/push/{uaid} with the notification as JSON
send_notification(n, node_id) ==
    [ method |-> "PUT",
      url |-> <<node_id, "/push/", n.subscription.user.uaid>>,
      body |-> Some(serialize_for_delivery(n)) ]

\* faulty variant: the check is sent to the node the notification came in with
trigger_notification_check_first_node(uaid, node_id) ==
    [ method |-> "PUT",
      url |-> << IF IsSome(notification.subscription.user.node_id)
                     THEN Unwrap(notification.subscription.user.node_id)
                     ELSE node_id,
                 "/notif/", uaid >>,
      body |-> None ]

\* trigger_notification_check: PUT {node_id}/notif/{uaid}, no body
trigger_notification_check(uaid, node_id) ==
    [ method |-> "PUT",
      url |-> <<node_id, "/notif/", uaid>>,
      body |-> None ]

\* store_notification: the arguments given to DynamoStorage::store_message
store_notification(n) ==
    [ uaid |-> n.subscription.user.uaid,
      message_month |->
          IF IsSome(n.subscription.user.current_month)
              THEN Unwrap(n.subscription.user.current_month)
              ELSE current_message_month,
      message |-> [message_id |-> n.message_id, ttl |-> n.headers.ttl, data |-> n.data] ]

\* faulty variant: the node removed is the one the notification came in with
remove_node_id_first_node(u, node_id) ==
    [ uaid |-> u.uaid,
      node_id |-> IF IsSome(notification.subscription.user.node_id)
                      THEN Unwrap(notification.subscription.user.node_id)
                      ELSE node_id,
      connected_at |-> u.connected_at ]

\* faulty variant: the guard is the connected_at the notification came in with
remove_node_id_first_connected_at(u, node_id) ==
    [ uaid |-> u.uaid, node_id |-> node_id,
      connected_at |-> notification.subscription.user.connected_at ]

\* remove_node_id: the arguments given to DynamoStorage::remove_node_id
remove_node_id(u, node_id) ==
    [ uaid |-> u.uaid, node_id |-> node_id, connected_at |-> u.connected_at ]

\* remove_node_id, line 165: metrics.incr("updates.client.host_gone")
host_gone == [name |-> "updates.client.host_gone", count |-> 1, destination |-> None]

\* faulty variant: the metric is sent without its destination tag
make_response_untagged(n, destination_tag, status) ==
    [ metric |->
          [ name |-> "notification.message_data",
            count |-> IF IsSome(n.data) THEN Len(Unwrap(n.data)) ELSE 0,
            destination |-> None ],
      response |->
          [ status |-> status,
            headers |-> [ Location |-> <<endpoint_url, "m/", n.message_id>>,
                          TTL |-> n.headers.ttl ],
            body |-> None ] ]

\* make_response: the metric sent and the RouterResponse built
make_response(n, destination_tag, status) ==
    [ metric |->
          [ name |-> "notification.message_data",
            count |-> IF IsSome(n.data) THEN Len(Unwrap(n.data)) ELSE 0,
            destination |-> Some(destination_tag) ],
      response |->
          [ status |-> status,
            headers |-> [ Location |-> <<endpoint_url, "m/", n.message_id>>,
                          TTL |-> n.headers.ttl ],
            body |-> None ] ]

\* faulty variant: the delivered response is built as the stored one
make_delivered_response_as_stored(n) == make_response(n, "Stored", ACCEPTED)

make_delivered_response(n) == make_response(n, "Direct", OK)

\* faulty variant: the stored response is built with StatusCode::OK
make_stored_response_ok(n) == make_response(n, "Stored", OK)

make_stored_response(n) == make_response(n, "Stored", ACCEPTED)

\* line 44: the node accepted the pushed notification
NodeAccepted(response) == response.status = 200

\* faulty variant: any answer of the node counts as a delivery
NodeDelivered_any_status(response) == response.ok

\* line 102: the node delivered on the notification check
NodeDelivered(response) == response.status = 200

\* faulty variant: the message compared with is not the one the storage gives
IsNoUserRecord_other_message(e) == e.kind = "Msg" /\ e.msg = "No user found"

\* faulty variant: every ErrorKind::Msg counts as a deleted user
IsNoUserRecord_any_message(e) == e.kind = "Msg"

\* line 74: ErrorKind::Msg(msg) if msg == "No user record found"
IsNoUserRecord(e) == e.kind = "Msg" /\ e.msg = "No user record found"

----------------------------------------------------------------------------
(* Storage (DynamoStorage, consumed through its interface).                *)

\* get_user: the row, or "No user record found" when there is none
ddb_get_user(d) ==
    IF IsSome(d.user) THEN [ok |-> TRUE, user |-> Unwrap(d.user)]
    ELSE [ok |-> FALSE, err |-> NoUserRecord]

\* store_message appends the message to the partition of the user
ddb_store_message(d, args) == [d EXCEPT !.messages = Append(@, args)]

\* remove_node_id removes node_id only if node_id and connected_at still match
ddb_remove_node_id(d, args) ==
    IF /\ IsSome(d.user)
       /\ Unwrap(d.user).node_id = Some(args.node_id)
       /\ Unwrap(d.user).connected_at = args.connected_at
    THEN [d EXCEPT !.user = Some([Unwrap(d.user) EXCEPT !.node_id = None])]
    ELSE d

----------------------------------------------------------------------------
(* Returning from route_notification.                                      *)

ReturnResponse(r) ==
    /\ metrics' = Append(metrics, r.metric)
    /\ result' = Some([ok |-> TRUE, response |-> r.response])
    /\ pc' = "done"

ReturnErr(e) ==
    /\ result' = Some([ok |-> FALSE, err |-> e])
    /\ pc' = "done"

Call(op, args, res) == calls' = Append(calls, [op |-> op, args |-> args, res |-> res])

----------------------------------------------------------------------------
Init ==
    /\ pc = "route_notification"
    /\ \E u \in Users, id \in MessageIds, ttl \in Ttls, data \in Payloads :
         /\ u.connected_at = 1
         /\ notification =
                [ message_id |-> id,
                  subscription |-> [user |-> u],
                  headers |-> [ttl |-> ttl],
                  data |-> data ]
         /\ user = u
         /\ db = [user |-> Some(u), messages |-> <<>>]
    /\ calls = <<>>
    /\ metrics = <<>>
    /\ result = None
    /\ request = None
    /\ extracted = None

(* faulty variant: an unreachable node is not removed from the user *)
SendNotification_no_remove ==
    /\ pc = "route_notification"
    /\ IsSome(user.node_id)
    /\ \E response \in HttpResults :
         LET node_id == Unwrap(user.node_id) IN
         /\ Call("send_notification", send_notification(notification, node_id), response)
         /\ IF response.ok /\ NodeAccepted(response)
              THEN ReturnResponse(make_delivered_response(notification))
              ELSE /\ pc' = "store_notification"
                   /\ UNCHANGED <<metrics, result>>
    /\ UNCHANGED <<notification, user, db, request, extracted>>

(* faulty variant: a failed delivery call is returned with `?` *)
SendNotification_propagate ==
    /\ pc = "route_notification"
    /\ IsSome(user.node_id)
    /\ \E response \in HttpResults :
         LET node_id == Unwrap(user.node_id) IN
         /\ Call("send_notification", send_notification(notification, node_id), response)
         /\ IF response.ok
              THEN IF NodeAccepted(response)
                     THEN ReturnResponse(make_delivered_response(notification))
                     ELSE /\ pc' = "store_notification"
                          /\ UNCHANGED <<metrics, result>>
              ELSE /\ ReturnErr([ kind |-> "Internal",
                                  error |-> [variant |-> "Reqwest", source |-> None] ])
                   /\ UNCHANGED metrics
    /\ UNCHANGED <<notification, user, db, request, extracted>>

(* lines 37-60: the user has a node, the notification is sent to it *)
SendNotification ==
    /\ pc = "route_notification"
    /\ IsSome(user.node_id)
    /\ \E response \in HttpResults :
         LET node_id == Unwrap(user.node_id) IN
         /\ Call("send_notification", send_notification(notification, node_id), response)
         /\ IF response.ok
              THEN IF NodeAccepted(response)
                     THEN ReturnResponse(make_delivered_response(notification))
                     ELSE /\ pc' = "store_notification"
                          /\ UNCHANGED <<metrics, result>>
              ELSE /\ pc' = "remove_node_id"
                   /\ UNCHANGED <<metrics, result>>
    /\ UNCHANGED <<notification, user, db, request, extracted>>

(* line 58: the node could not be reached, its id is removed from the user *)
RemoveNodeId ==
    /\ pc = "remove_node_id"
    /\ LET args == remove_node_id(user, Unwrap(user.node_id)) IN
       \/ /\ Call("remove_node_id", args, [ok |-> TRUE])
          /\ db' = ddb_remove_node_id(db, args)
          /\ metrics' = Append(metrics, host_gone)
          /\ pc' = "store_notification"
          /\ UNCHANGED result
       \/ \E e \in DbErrors :
            /\ Call("remove_node_id", args, [ok |-> FALSE, err |-> e])
            /\ metrics' = Append(metrics, host_gone)
            /\ ReturnErr(ApiErrorKind_Database(e))
            /\ UNCHANGED db
    /\ UNCHANGED <<notification, user, request, extracted>>

(* faulty variant: a failed store_message is attempted again *)
StoreNotification_retry ==
    /\ \/ pc = "store_notification"
       \/ pc = "route_notification" /\ ~IsSome(user.node_id)
    /\ LET args == store_notification(notification) IN
       \/ /\ Call("store_message", args, [ok |-> TRUE])
          /\ db' = ddb_store_message(db, args)
          /\ pc' = "get_user"
          /\ UNCHANGED result
       \/ \E e \in DbErrors :
            /\ Call("store_message", args, [ok |-> FALSE, err |-> e])
            /\ IF Len(calls) < 4
                 THEN pc' = "store_notification" /\ UNCHANGED result
                 ELSE ReturnErr(ApiErrorKind_Router(RouterError_SaveDb(e)))
            /\ UNCHANGED db
    /\ UNCHANGED <<notification, user, metrics, request, extracted>>

(* lines 63-65: no node, or the node is busy or gone: the notification is stored *)
StoreNotification ==
    /\ \/ pc = "store_notification"
       \/ pc = "route_notification" /\ ~IsSome(user.node_id)
    /\ LET args == store_notification(notification) IN
       \/ /\ Call("store_message", args, [ok |-> TRUE])
          /\ db' = ddb_store_message(db, args)
          /\ pc' = "get_user"
          /\ UNCHANGED result
       \/ \E e \in DbErrors :
            /\ Call("store_message", args, [ok |-> FALSE, err |-> e])
            /\ ReturnErr(ApiErrorKind_Router(RouterError_SaveDb(e)))
            /\ UNCHANGED db
    /\ UNCHANGED <<notification, user, metrics, request, extracted>>

(* lines 67-95: the user is fetched again *)
GetUser ==
    /\ pc = "get_user"
    /\ \E res \in {ddb_get_user(db)} \cup {[ok |-> FALSE, err |-> e] : e \in DbErrors} :
         /\ Call("get_user", user.uaid, res)
         /\ IF res.ok
              THEN /\ user' = res.user
                   /\ IF IsSome(res.user.node_id)
                        THEN /\ pc' = "trigger_notification_check"
                             /\ UNCHANGED <<metrics, result>>
                        ELSE ReturnResponse(make_stored_response(notification))
              ELSE /\ UNCHANGED user
                   /\ IF IsNoUserRecord(res.err)
                        THEN /\ ReturnErr(ApiErrorKind_Router(RouterError_UserWasDeleted))
                             /\ UNCHANGED metrics
                        ELSE ReturnResponse(make_stored_response(notification))
    /\ UNCHANGED <<notification, db, request, extracted>>

(* faulty variant: a failed notification check is returned with `?` *)
TriggerNotificationCheck_propagate ==
    /\ pc = "trigger_notification_check"
    /\ \E response \in HttpResults :
         LET node_id == Unwrap(user.node_id) IN
         /\ Call("trigger_notification_check",
                 trigger_notification_check(user.uaid, node_id), response)
         /\ IF response.ok
              THEN IF NodeDelivered(response)
                     THEN ReturnResponse(make_delivered_response(notification))
                     ELSE ReturnResponse(make_stored_response(notification))
              ELSE /\ ReturnErr([ kind |-> "Internal",
                                  error |-> [variant |-> "Reqwest", source |-> None] ])
                   /\ UNCHANGED metrics
    /\ UNCHANGED <<notification, user, db, request, extracted>>

(* lines 97-112: the node of the re-fetched user is told to check for messages *)
TriggerNotificationCheck ==
    /\ pc = "trigger_notification_check"
    /\ \E response \in HttpResults :
         LET node_id == Unwrap(user.node_id) IN
         /\ Call("trigger_notification_check",
                 trigger_notification_check(user.uaid, node_id), response)
         /\ IF response.ok
              THEN IF NodeDelivered(response)
                     THEN ReturnResponse(make_delivered_response(notification))
                     ELSE ReturnResponse(make_stored_response(notification))
              ELSE /\ pc' = "remove_node_id_recheck"
                   /\ UNCHANGED <<metrics, result>>
    /\ UNCHANGED <<notification, user, db, request, extracted>>

(* lines 113-114: the node could not be reached, its id is removed *)
RemoveNodeIdRecheck ==
    /\ pc = "remove_node_id_recheck"
    /\ LET args == remove_node_id(user, Unwrap(user.node_id))
           r == make_stored_response(notification) IN
       \/ /\ Call("remove_node_id", args, [ok |-> TRUE])
          /\ db' = ddb_remove_node_id(db, args)
          /\ metrics' = metrics \o <<host_gone, r.metric>>
          /\ result' = Some([ok |-> TRUE, response |-> r.response])
          /\ pc' = "done"
       \/ \E e \in DbErrors :
            /\ Call("remove_node_id", args, [ok |-> FALSE, err |-> e])
            /\ metrics' = Append(metrics, host_gone)
            /\ ReturnErr(ApiErrorKind_Database(e))
            /\ UNCHANGED db
    /\ UNCHANGED <<notification, user, request, extracted>>

----------------------------------------------------------------------------
(* The subscriber, acting on the storage rows while the call is running.   *)

Running == pc # "done"

\* the subscriber connects to a node: node_id and a newer connected_at are written
Reconnect ==
    /\ Running
    /\ IsSome(db.user)
    /\ Unwrap(db.user).connected_at < MaxConnectedAt
    /\ \E n \in Nodes :
         db' = [db EXCEPT !.user =
                   Some([Unwrap(db.user) EXCEPT !.node_id = Some(n),
                                                !.connected_at = @ + 1])]
    /\ UNCHANGED <<pc, notification, user, calls, metrics, result, request, extracted>>

\* the node the subscriber was connected to clears its id on disconnection
Disconnect ==
    /\ Running
    /\ IsSome(db.user)
    /\ IsSome(Unwrap(db.user).node_id)
    /\ db' = [db EXCEPT !.user = Some([Unwrap(db.user) EXCEPT !.node_id = None])]
    /\ UNCHANGED <<pc, notification, user, calls, metrics, result, request, extracted>>

\* the user row is deleted
DropUser ==
    /\ Running
    /\ IsSome(db.user)
    /\ db' = [db EXCEPT !.user = None]
    /\ UNCHANGED <<pc, notification, user, calls, metrics, result, request, extracted>>

Next ==
    \/ SendNotification
    \/ RemoveNodeId
    \/ StoreNotification
    \/ GetUser
    \/ TriggerNotificationCheck
    \/ RemoveNodeIdRecheck
    \/ Reconnect
    \/ Disconnect
    \/ DropUser

Spec == Init /\ [][Next]_vars

\* the steps of route_notification itself
RouterNext ==
    \/ SendNotification
    \/ RemoveNodeId
    \/ StoreNotification
    \/ GetUser
    \/ TriggerNotificationCheck
    \/ RemoveNodeIdRecheck

\* every external call eventually returns: the await the call is suspended at
\* is eventually resumed
FairSpec == Spec /\ WF_vars(RouterNext)

----------------------------------------------------------------------------
(* What the call log says about one call of route_notification.            *)

CallIdx(op) == {i \in DOMAIN calls : calls[i].op = op}
Count(op) == Cardinality(CallIdx(op))
LastCall(i) == i = Len(calls)

Done == pc = "done"
Returned == IsSome(result)

\* the direct-delivery call is the first call of a run that makes it
DirectAttempted == calls # <<>> /\ calls[1].op = "send_notification"
DirectDelivered == DirectAttempted /\ calls[1].res.ok /\ calls[1].res.status = 200
DirectRefused == DirectAttempted /\ calls[1].res.ok /\ calls[1].res.status # 200
DirectFailed == DirectAttempted /\ ~calls[1].res.ok

\* the message_data metrics sent so far
MessageData == SelectSeq(metrics, LAMBDA m : m.name = "notification.message_data")

ReturnedResponse(status, tag) ==
    /\ Returned
    /\ Unwrap(result).ok
    /\ Unwrap(result).response.status = status
    /\ Len(MessageData) = 1
    /\ MessageData[1].destination = Some(tag)
    /\ metrics[Len(metrics)] = MessageData[1]

ReturnedDirect == ReturnedResponse(200, "Direct")
ReturnedStored == ReturnedResponse(202, "Stored")

ReturnedErr(kind, variant) ==
    /\ Returned
    /\ ~Unwrap(result).ok
    /\ Unwrap(result).err.kind = kind
    /\ Unwrap(result).err.error.variant = variant

\* the recheck call answered 200
RecheckDelivered ==
    \E i \in CallIdx("trigger_notification_check") :
        calls[i].res.ok /\ calls[i].res.status = 200

\* some storage operation of the given name failed
Failed(op) == \E i \in CallIdx(op) : ~calls[i].res.ok

UserNotFound == \E i \in CallIdx("get_user") : ~calls[i].res.ok /\ calls[i].res.err = NoUserRecord

----------------------------------------------------------------------------
(* C1: in every run whose direct-delivery attempt does not end with HTTP   *)
(* 200 (no node_id, a non-200 answer, or a failed call), store_message has *)
(* been invoked by the time route_notification returns any result,         *)
(* whatever the outcome of the other operations.                           *)
C1_StoredBeforeAnyResult ==
    (Returned /\ ~DirectDelivered) => Count("store_message") >= 1

(* C2: when the delivery call to the user's node answers 200, the call     *)
(* returns the Direct response (200) and performs no storage operation and *)
(* no recheck call: the delivery call is the only call made.               *)
C2_DirectNoStorage ==
    DirectDelivered =>
        /\ Done
        /\ ReturnedDirect
        /\ Len(calls) = 1
        /\ Count("store_message") = 0
        /\ Count("get_user") = 0
        /\ Count("remove_node_id") = 0
        /\ Count("trigger_notification_check") = 0
        /\ db.messages = <<>>

C2_Witness == DirectDelivered /\ Done

(* C3: store_message is invoked at most once per call, on every path.      *)
C3_StoreAtMostOnce ==
    /\ Count("store_message") <= 1
    /\ Len(db.messages) <= 1

\* a run through both node removals, the store and the re-fetch
C3_Witness ==
    /\ Done
    /\ Count("remove_node_id") = 2
    /\ Count("store_message") = 1
    /\ Count("get_user") = 1

(* C4 as claimed, on the runs in which no storage operation fails: when    *)
(* the delivery call fails outright, remove_node_id(uaid, N, connected_at) *)
(* is invoked exactly once before store_message and the response is        *)
(* "Stored".                                                               *)
C4_FailedDeliveryEndsStored ==
    ( /\ Done
      /\ DirectFailed
      /\ ~Failed("remove_node_id")
      /\ ~Failed("store_message")
      /\ ~Failed("get_user") ) =>
        /\ Count("store_message") = 1
        /\ \A i \in CallIdx("store_message") :
               Cardinality({j \in CallIdx("remove_node_id") : j < i}) = 1
        /\ ReturnedStored

(* C4 as amended: when the delivery call fails outright, remove_node_id    *)
(* (uaid, N, connected_at of the notification's user) is the next          *)
(* operation and the only one before store_message, which is invoked only  *)
(* if that removal succeeded; the call returns "Stored" exactly when no    *)
(* removal and no store fails, the re-fetch does not report the user       *)
(* deleted and the recheck does not answer 200, and it returns "Direct"    *)
(* exactly when the recheck answers 200.                                   *)
C4_FailedDeliveryRemovesThenStores ==
    DirectFailed =>
        /\ Len(calls) = 1 => pc = "remove_node_id"
        /\ Len(calls) >= 2 =>
               /\ calls[2].op = "remove_node_id"
               /\ calls[2].args =
                      [ uaid |-> notification.subscription.user.uaid,
                        node_id |-> Unwrap(notification.subscription.user.node_id),
                        connected_at |-> notification.subscription.user.connected_at ]
        /\ \A i \in CallIdx("store_message") : i = 3 /\ calls[2].res.ok
        /\ Done =>
               /\ ReturnedStored <=>
                      ~(Failed("remove_node_id") \/ Failed("store_message")
                          \/ UserNotFound \/ RecheckDelivered)
               /\ ReturnedDirect <=> RecheckDelivered

C4_Witness ==
    /\ Done
    /\ DirectFailed
    /\ ReturnedStored
    /\ Count("remove_node_id") = 1
    /\ Count("store_message") = 1

(* C5: when the delivery call answers a non-200 status, store_message is   *)
(* the next operation (no remove_node_id precedes it) and the notification *)
(* is stored before the call ends; and whenever the re-fetch succeeds with *)
(* a user that has no node_id, the call ends there with "Stored" (202) and *)
(* makes no recheck call.                                                  *)
C5_RefusedStoresWithoutRemoval ==
    /\ DirectRefused =>
           /\ Len(calls) = 1 => pc = "store_notification"
           /\ Len(calls) >= 2 => calls[2].op = "store_message"
           /\ Done => Count("store_message") = 1
    /\ \A i \in CallIdx("get_user") :
           (calls[i].res.ok /\ calls[i].res.user.node_id = None) =>
               /\ Done
               /\ LastCall(i)
               /\ ReturnedStored
               /\ Count("trigger_notification_check") = 0

C5_Witness ==
    /\ DirectRefused
    /\ calls[1].res.status = 503
    /\ \E i \in CallIdx("get_user") : calls[i].res.ok /\ calls[i].res.user.node_id = None
    /\ ReturnedStored

(* C6: after a successful store, when the re-fetch returns a user with     *)
(* node_id = N2, the recheck call is PUT N2/notif/uaid, with N2 the node   *)
(* of the re-fetched user; the response is "Direct" (200) if it answers    *)
(* 200 and "Stored" (202) if it answers any other status.                  *)
C6_RecheckGoesToRefetchedNode ==
    \A i \in CallIdx("get_user") :
        (calls[i].res.ok /\ IsSome(calls[i].res.user.node_id)) =>
            /\ calls[i - 1].op = "store_message" /\ calls[i - 1].res.ok
            /\ LastCall(i) => pc = "trigger_notification_check"
            /\ ~LastCall(i) =>
                   /\ calls[i + 1].op = "trigger_notification_check"
                   /\ calls[i + 1].args =
                          [ method |-> "PUT",
                            url |-> << Unwrap(calls[i].res.user.node_id), "/notif/",
                                       notification.subscription.user.uaid >>,
                            body |-> None ]
                   /\ calls[i + 1].res.ok =>
                          /\ Done
                          /\ LastCall(i + 1)
                          /\ IF calls[i + 1].res.status = 200
                               THEN ReturnedDirect
                               ELSE ReturnedStored

\* the re-fetched node differs from the node the notification came in with
C6_Witness ==
    /\ ReturnedDirect
    /\ \E i \in CallIdx("get_user") :
           /\ calls[i].res.ok
           /\ IsSome(calls[i].res.user.node_id)
           /\ IsSome(notification.subscription.user.node_id)
           /\ calls[i].res.user.node_id # notification.subscription.user.node_id

(* C7: after a successful store, if the re-fetch reports that there is no  *)
(* such user, the call returns RouterError::UserWasDeleted (410 Gone),     *)
(* makes no further call (no recheck, no remove_node_id), sends no         *)
(* message_data metric and leaves the stored message in place.             *)
C7_UserWasDeleted ==
    \A i \in CallIdx("get_user") :
        (~calls[i].res.ok /\ calls[i].res.err = NoUserRecord) =>
            /\ calls[i - 1].op = "store_message" /\ calls[i - 1].res.ok
            /\ Done
            /\ LastCall(i)
            /\ ReturnedErr("Router", "UserWasDeleted")
            /\ RouterError_status(Unwrap(result).err.error) = 410
            /\ MessageData = <<>>
            /\ db.messages = <<store_notification(notification)>>

C7_Witness == Done /\ UserNotFound

(* C8: after a successful store, if the re-fetch fails for any reason      *)
(* other than "no such user", the call returns the "Stored" (202)          *)
(* response, not an error, and no recheck call follows.                    *)
C8_RefetchErrorIsSwallowed ==
    \A i \in CallIdx("get_user") :
        (~calls[i].res.ok /\ calls[i].res.err # NoUserRecord) =>
            /\ calls[i - 1].op = "store_message" /\ calls[i - 1].res.ok
            /\ Done
            /\ LastCall(i)
            /\ ReturnedStored
            /\ Count("trigger_notification_check") = 0

C8_Witness ==
    /\ Done
    /\ \E i \in CallIdx("get_user") :
           ~calls[i].res.ok /\ calls[i].res.err = [kind |-> "Msg", msg |-> "Error fetching user"]

(* C9: if store_message fails, the call returns RouterError::SaveDb (503)  *)
(* and does nothing more: no re-fetch, no recheck, no remove_node_id, no   *)
(* response and no message_data metric.                                    *)
C9_SaveDb ==
    \A i \in CallIdx("store_message") :
        ~calls[i].res.ok =>
            /\ Done
            /\ LastCall(i)
            /\ ReturnedErr("Router", "SaveDb")
            /\ Unwrap(result).err.error.source = Some(calls[i].res.err)
            /\ RouterError_status(Unwrap(result).err.error) = 503
            /\ Count("get_user") = 0
            /\ Count("trigger_notification_check") = 0
            /\ MessageData = <<>>
            /\ db.messages = <<>>

C9_Witness == Done /\ Failed("store_message") /\ DirectFailed

(* C10: when the recheck call fails outright, remove_node_id is invoked    *)
(* with the node_id and the connected_at of the re-fetched user; if it     *)
(* succeeds the response is "Stored" (202), if it fails the failure is     *)
(* returned as a database error and no response is built.                  *)
C10_RecheckFailureRemovesRefetchedNode ==
    \A i \in CallIdx("trigger_notification_check") :
        ~calls[i].res.ok =>
            /\ LastCall(i) => pc = "remove_node_id_recheck"
            /\ ~LastCall(i) =>
                   LET refetched == calls[i - 1].res.user IN
                   /\ LastCall(i + 1)
                   /\ Done
                   /\ calls[i + 1].op = "remove_node_id"
                   /\ calls[i + 1].args =
                          [ uaid |-> refetched.uaid,
                            node_id |-> Unwrap(refetched.node_id),
                            connected_at |-> refetched.connected_at ]
                   /\ IF calls[i + 1].res.ok
                        THEN ReturnedStored
                        ELSE /\ ReturnedErr("Database", "Database")
                             /\ Unwrap(result).err.error.source = Some(calls[i + 1].res.err)
                             /\ MessageData = <<>>

\* the re-fetched user differs from the notification's in node and connected_at
C10_Witness ==
    /\ Done
    /\ ReturnedStored
    /\ \E i \in CallIdx("trigger_notification_check") :
           /\ ~calls[i].res.ok
           /\ IsSome(notification.subscription.user.node_id)
           /\ calls[i - 1].res.user.node_id # notification.subscription.user.node_id
           /\ calls[i - 1].res.user.connected_at # notification.subscription.user.connected_at

----------------------------------------------------------------------------
(* A step of the router that calls remove_node_id.                         *)
RemovesNodeId ==
    /\ Len(calls') = Len(calls) + 1
    /\ calls'[Len(calls')].op = "remove_node_id"

(* C11: with reconnections interleaved between the steps of the router and *)
(* the storage applying remove_node_id only while node_id and connected_at *)
(* still match, every remove_node_id the router issues carries the node_id *)
(* and the connected_at of one and the same observed user record (the one  *)
(* the router observed last), and it never clears the node_id of a row     *)
(* that a reconnection wrote after that observation.                       *)
C11_RemovalGuardedByObservedRecord ==
    [][ RemovesNodeId =>
          LET args == calls'[Len(calls')].args IN
          /\ IsSome(user.node_id)
          /\ args = [ uaid |-> user.uaid,
                      node_id |-> Unwrap(user.node_id),
                      connected_at |-> user.connected_at ]
          /\ \/ db' = db
             \/ /\ IsSome(db.user)
                /\ Unwrap(db.user).node_id = user.node_id
                /\ Unwrap(db.user).connected_at = user.connected_at
                /\ db' = [db EXCEPT !.user = Some([Unwrap(db.user) EXCEPT !.node_id = None])]
          /\ (IsSome(db.user) /\ Unwrap(db.user).connected_at > user.connected_at)
                => db' = db
      ]_vars

\* the recheck removal was issued after a reconnection to the very node the
\* router observed, and the row written by the reconnection kept its node_id
C11_Witness ==
    /\ Done
    /\ Count("remove_node_id") = 2
    /\ calls[Len(calls)].op = "remove_node_id"
    /\ calls[Len(calls)].res.ok
    /\ IsSome(db.user)
    /\ Unwrap(db.user).node_id = Some(calls[Len(calls)].args.node_id)
    /\ Unwrap(db.user).connected_at > calls[Len(calls)].args.connected_at

----------------------------------------------------------------------------
StorageOps == {"remove_node_id", "store_message", "get_user"}

(* C12 as claimed, for the recheck call: whatever a node answers to the    *)
(* recheck (a non-200 status or an outright failure), the call ends with   *)
(* the "Stored" response and not with an error.                            *)
C12_RecheckAlwaysEndsStored ==
    \A i \in CallIdx("trigger_notification_check") :
        (Returned /\ ~(calls[i].res.ok /\ calls[i].res.status = 200)) => ReturnedStored

(* C12 as amended: the outcome of a node call is never itself returned as  *)
(* an error: every error the call returns is the failure of the storage    *)
(* operation made last.  A non-200 answer goes straight on (to             *)
(* store_message after the direct attempt, to "Stored" after the recheck); *)
(* an outright failure is followed by remove_node_id and, when that        *)
(* removal succeeds, goes on the same way.                                 *)
C12_NodeOutcomeAbsorbedUnlessRemovalFails ==
    /\ (Returned /\ ~Unwrap(result).ok) =>
           /\ calls[Len(calls)].op \in StorageOps
           /\ ~calls[Len(calls)].res.ok
           /\ Unwrap(result).err.kind \in {"Router", "Database"}
           /\ Unwrap(result).err.error.variant # "UserWasDeleted" =>
                  Unwrap(result).err.error.source = Some(calls[Len(calls)].res.err)
    /\ DirectRefused =>
           /\ Len(calls) = 1 => pc = "store_notification"
           /\ Len(calls) >= 2 => calls[2].op = "store_message"
    /\ DirectFailed =>
           /\ Len(calls) = 1 => pc = "remove_node_id"
           /\ Len(calls) >= 2 => calls[2].op = "remove_node_id"
           /\ (Len(calls) = 2 /\ calls[2].res.ok) => pc = "store_notification"
           /\ (Len(calls) >= 3 /\ calls[2].res.ok) => calls[3].op = "store_message"
    /\ \A i \in CallIdx("trigger_notification_check") :
           /\ (calls[i].res.ok /\ calls[i].res.status # 200) =>
                  Done /\ LastCall(i) /\ ReturnedStored
           /\ ~calls[i].res.ok =>
                  /\ LastCall(i) => pc = "remove_node_id_recheck"
                  /\ ~LastCall(i) =>
                         /\ calls[i + 1].op = "remove_node_id"
                         /\ calls[i + 1].res.ok => ReturnedStored

\* both node calls failed outright and the call still ended with "Stored"
C12_Witness ==
    /\ Done
    /\ DirectFailed
    /\ \E i \in CallIdx("trigger_notification_check") : ~calls[i].res.ok
    /\ ReturnedStored

----------------------------------------------------------------------------
(* C13: provided every external call eventually returns, every call of     *)
(* route_notification eventually terminates, with exactly one result that  *)
(* never changes afterwards and that is the Direct response, the Stored    *)
(* response, RouterError::SaveDb, RouterError::UserWasDeleted or a wrapped *)
(* database error; until then a step of the call is always possible.       *)
C13_TerminatesWithOneResult ==
    /\ <>Done
    /\ [](Done <=> Returned)
    /\ [][Returned => result' = result]_vars
    /\ [](Returned =>
            \/ ReturnedDirect
            \/ ReturnedStored
            \/ ReturnedErr("Router", "SaveDb")
            \/ ReturnedErr("Router", "UserWasDeleted")
            \/ ReturnedErr("Database", "Database"))
    /\ [](~Done => ENABLED RouterNext)

\* the longest run: both node calls fail and the last removal fails too
C13_Witness ==
    /\ Done
    /\ Len(calls) = 6
    /\ ReturnedErr("Database", "Database")

----------------------------------------------------------------------------
NodeOps == {"send_notification", "trigger_notification_check"}

(* C20: a call makes at most one direct-delivery call and at most one      *)
(* recheck call, invokes get_user and store_message at most once each and  *)
(* remove_node_id at most twice, each time right after a node call that    *)
(* failed outright (once after the delivery call, once after the recheck); *)
(* an operation that failed is never attempted again.                      *)
C20_CallBudget ==
    /\ Count("send_notification") <= 1
    /\ Count("trigger_notification_check") <= 1
    /\ Count("get_user") <= 1
    /\ Count("store_message") <= 1
    /\ Count("remove_node_id") <= 2
    /\ \A i \in CallIdx("remove_node_id") :
           /\ i > 1
           /\ calls[i - 1].op \in NodeOps
           /\ ~calls[i - 1].res.ok
    /\ \A op \in NodeOps :
           Cardinality({i \in CallIdx("remove_node_id") : calls[i - 1].op = op}) <= 1
    /\ \A i \in DOMAIN calls :
           ~calls[i].res.ok => \A j \in DOMAIN calls : j > i => calls[j].op # calls[i].op

\* a run that uses the whole budget: six calls, two of them removals
C20_Witness ==
    /\ Done
    /\ Len(calls) = 6
    /\ Count("remove_node_id") = 2
    /\ ReturnedStored

----------------------------------------------------------------------------
(* NotificationHeaders (server/extractors/notification_headers.rs).        *)
(*                                                                         *)
(* A string is the sequence of its characters.  An i64 is kept as a sign   *)
(* and a decimal magnitude, so that values up to and beyond the 64-bit     *)
(* range are told apart exactly.                                           *)

Digit == { "0", "1", "2", "3", "4", "5", "6", "7", "8", "9" }
UpperCase ==
    { "A", "B", "C", "D", "E", "F", "G", "H", "I", "J", "K", "L", "M",
      "N", "O", "P", "Q", "R", "S", "T", "U", "V", "W", "X", "Y", "Z" }
LowerCase ==
    { "a", "b", "c", "d", "e", "f", "g", "h", "i", "j", "k", "l", "m",
      "n", "o", "p", "q", "r", "s", "t", "u", "v", "w", "x", "y", "z" }

DigitValue ==
    "0" :> 0 @@ "1" :> 1 @@ "2" :> 2 @@ "3" :> 3 @@ "4" :> 4 @@
    "5" :> 5 @@ "6" :> 6 @@ "7" :> 7 @@ "8" :> 8 @@ "9" :> 9

DigitChar == [n \in 0..9 |-> CHOOSE ch \in Digit : DigitValue[ch] = n]

\* a decimal magnitude without its leading zeros
RECURSIVE StripZeros(_)
StripZeros(d) == IF Len(d) > 1 /\ d[1] = "0" THEN StripZeros(Tail(d)) ELSE d

\* a < b on magnitudes without leading zeros
MagLess(a, b) ==
    \/ Len(a) < Len(b)
    \/ /\ Len(a) = Len(b)
       /\ \E i \in 1..Len(a) :
              /\ DigitValue[a[i]] < DigitValue[b[i]]
              /\ \A j \in 1..(i - 1) : a[j] = b[j]

\* a < b on i64 values
I64Less(a, b) ==
    IF a.neg
        THEN IF b.neg THEN MagLess(b.mag, a.mag) ELSE TRUE
        ELSE IF b.neg THEN FALSE ELSE MagLess(a.mag, b.mag)

RECURSIVE NatDigits(_)
NatDigits(n) ==
    IF n < 10 THEN <<DigitChar[n]>>
    ELSE Append(NatDigits(n \div 10), DigitChar[n % 10])

\* the i64 of a small integer
I64(n) == [neg |-> n < 0, mag |-> NatDigits(IF n < 0 THEN 0 - n ELSE n)]

\* i64::MAX = 2^63 - 1 and the magnitude of i64::MIN = -2^63
I64_MAX_MAG == <<"9", "2", "2", "3", "3", "7", "2", "0", "3", "6", "8", "5", "4", "7", "7", "5", "8", "0", "7">>
I64_MIN_MAG == <<"9", "2", "2", "3", "3", "7", "2", "0", "3", "6", "8", "5", "4", "7", "7", "5", "8", "0", "8">>

\* str::parse::<i64>().ok(): an optional sign, then one or more decimal
\* digits; Err on anything else and on a value outside the 64-bit range
i64_parse_ok(str) ==
    LET signed == str # <<>> /\ str[1] \in {"+", "-"}
        neg == str # <<>> /\ str[1] = "-"
        digits == IF signed THEN Tail(str) ELSE str
        mag == StripZeros(digits)
    IN  IF digits = <<>> \/ \E i \in 1..Len(digits) : digits[i] \notin Digit
            THEN None
        ELSE IF MagLess(IF neg THEN I64_MIN_MAG ELSE I64_MAX_MAG, mag)
            THEN None
        ELSE Some([neg |-> neg /\ mag # <<"0">>, mag |-> mag])

\* std::cmp::min on i64
min(a, b) == IF I64Less(b, a) THEN b ELSE a

\* line 15
MAX_TTL == 60 * 60 * 24 * 60

\* faulty variant: "=" is taken anywhere after the first character
VALID_BASE64_URL_is_match_any_pad(str) ==
    /\ str # <<>>
    /\ str[1] \in Digit \cup UpperCase \cup LowerCase \cup {"-", "_"}
    /\ \A i \in 1..Len(str) :
           str[i] \in Digit \cup UpperCase \cup LowerCase \cup {"-", "_", "="}

\* line 12: ^[0-9A-Za-z\-_]+=*$
VALID_BASE64_URL_is_match(str) ==
    \E k \in 1..Len(str) :
        /\ \A i \in 1..k : str[i] \in Digit \cup UpperCase \cup LowerCase \cup {"-", "_"}
        /\ \A i \in (k + 1)..Len(str) : str[i] = "="

\* headers::util::get_header / get_owned_header: the value of the header
get_header(req, name) == req.headers[name]

\* #[derive(Validate)], lines 18-44: the errors of the ttl and topic fields
validate(h) ==
    (IF IsSome(h.ttl) /\ I64Less(Unwrap(h.ttl), I64(0))
        THEN {[field |-> "ttl", code |-> "114", message |-> "TTL must be greater than 0"]}
        ELSE {})
    \cup
    (IF IsSome(h.topic) /\ Len(Unwrap(h.topic)) > 32
        THEN {[field |-> "topic", code |-> "113",
               message |-> "Topic must be no greater than 32 characters"]}
        ELSE {})
    \cup
    (IF IsSome(h.topic) /\ ~VALID_BASE64_URL_is_match(Unwrap(h.topic))
        THEN {[field |-> "topic", code |-> "113",
               message |-> "Topic must be URL and Filename safe Base64 alphabet"]}
        ELSE {})

ApiErrorKind_InvalidEncryption(message) ==
    [ok |-> FALSE, kind |-> "InvalidEncryption", message |-> message]

ApiErrorKind_Validation(errors) ==
    [ok |-> FALSE, kind |-> "Validation", errors |-> errors]

Ok(value) == [ok |-> TRUE, value |-> value]

\* the strings the code compares with
str_aesgcm128 == <<"a", "e", "s", "g", "c", "m", "1", "2", "8">>
str_aesgcm == <<"a", "e", "s", "g", "c", "m">>
str_aes128gcm == <<"a", "e", "s", "1", "2", "8", "g", "c", "m">>
str_salt == <<"s", "a", "l", "t">>
str_dh == <<"d", "h">>

\* the pieces of str between the characters of delims
RECURSIVE Split(_, _)
Split(str, delims) ==
    IF \E i \in 1..Len(str) : str[i] \in delims
        THEN LET i == CHOOSE i \in 1..Len(str) :
                          /\ str[i] \in delims
                          /\ \A j \in 1..(i - 1) : str[j] \notin delims
             IN  <<SubSeq(str, 1, i - 1)>> \o Split(SubSeq(str, i + 1, Len(str)), delims)
        ELSE <<str>>

\* CryptoKeyHeader::parse: a comma- or semicolon-delimited list of key=value
\* items, the value being what follows the first "="; None if an item has no "="
CryptoKeyHeader_parse(header) ==
    LET items == Split(header, {",", ";"})
        pair(item) ==
            LET kv == Split(item, {"="})
            IN  [key |-> kv[1], value |-> SubSeq(item, Len(kv[1]) + 2, Len(item))]
    IN  IF \E i \in DOMAIN items : "=" \notin {items[i][j] : j \in DOMAIN items[i]}
            THEN None
            ELSE Some([i \in DOMAIN items |-> pair(items[i])])

\* CryptoKeyHeader::get_by_key: the value of the first item with the key
get_by_key(header_data, key) ==
    IF \E i \in DOMAIN header_data : header_data[i].key = key
        THEN Some(header_data[CHOOSE i \in DOMAIN header_data :
                                  /\ header_data[i].key = key
                                  /\ \A j \in 1..(i - 1) : header_data[j].key # key].value)
        ELSE None

\* lines 147-174
assert_base64_item_exists(header_name, header, key) ==
    IF ~IsSome(header)
        THEN ApiErrorKind_InvalidEncryption(<<"Missing ", header_name, " header">>)
    ELSE LET header_data == CryptoKeyHeader_parse(Unwrap(header)) IN
    IF ~IsSome(header_data)
        THEN ApiErrorKind_InvalidEncryption(<<"Invalid ", header_name, " header">>)
    ELSE LET salt == get_by_key(Unwrap(header_data), key) IN
    IF ~IsSome(salt)
        THEN ApiErrorKind_InvalidEncryption(
                 <<"Missing ", key, " value in ", header_name, " header">>)
    ELSE IF ~VALID_BASE64_URL_is_match(Unwrap(salt))
        THEN ApiErrorKind_InvalidEncryption(
                 <<"Invalid ", key, " value in ", header_name, " header">>)
    ELSE Ok(<<>>)

\* lines 177-196
assert_not_exists(header_name, header, key) ==
    IF ~IsSome(header)
        THEN Ok(<<>>)
    ELSE LET header_data == CryptoKeyHeader_parse(Unwrap(header)) IN
    IF ~IsSome(header_data)
        THEN ApiErrorKind_InvalidEncryption(<<"Invalid ", header_name, " header">>)
    ELSE IF IsSome(get_by_key(Unwrap(header_data), key))
        THEN ApiErrorKind_InvalidEncryption(
                 <<"Do not include '", key, "' header in ", header_name, " header">>)
    ELSE Ok(<<>>)

\* `a?; b`: the error of a, or else b
Try(a, b) == IF a.ok THEN b ELSE a

\* faulty variant: the Crypto-Key header is not looked at
validate_encryption_01_rules_no_crypto_key(h) ==
    Try(assert_base64_item_exists("Encryption", h.encryption, str_salt),
    Try(assert_base64_item_exists("Encryption-Key", h.encryption_key, str_dh),
        Ok(<<>>)))

\* lines 108-114, draft-ietf-webpush-encryption-01
validate_encryption_01_rules(h) ==
    Try(assert_base64_item_exists("Encryption", h.encryption, str_salt),
    Try(assert_base64_item_exists("Encryption-Key", h.encryption_key, str_dh),
    Try(assert_not_exists("aesgcm128 Crypto-Key", h.crypto_key, str_dh),
        Ok(<<>>))))

\* faulty variant: an Encryption-Key header is let through
validate_encryption_04_rules_any_encryption_key(h) ==
    Try(assert_base64_item_exists("Encryption", h.encryption, str_salt),
        IF IsSome(h.crypto_key)
            THEN Try(assert_base64_item_exists("Crypto-Key", h.crypto_key, str_dh), Ok(<<>>))
        ELSE Ok(<<>>))

\* lines 118-133, draft-ietf-webpush-encryption-04
validate_encryption_04_rules(h) ==
    Try(assert_base64_item_exists("Encryption", h.encryption, str_salt),
        IF IsSome(h.encryption_key)
            THEN ApiErrorKind_InvalidEncryption(
                     <<"Encryption-Key header is not valid for webpush draft 02 or later">>)
        ELSE IF IsSome(h.crypto_key)
            THEN Try(assert_base64_item_exists("Crypto-Key", h.crypto_key, str_dh), Ok(<<>>))
        ELSE Ok(<<>>))

\* faulty variant: the Encryption header is not looked at
validate_encryption_06_rules_no_encryption(h) ==
    Try(assert_not_exists("aes128gcm Crypto-Key", h.crypto_key, str_dh),
        Ok(<<>>))

\* lines 139-144, draft-ietf-httpbis-encryption-encoding-06
validate_encryption_06_rules(h) ==
    Try(assert_not_exists("aes128gcm Encryption", h.encryption, str_salt),
    Try(assert_not_exists("aes128gcm Crypto-Key", h.crypto_key, str_dh),
        Ok(<<>>)))

\* lines 86-104
validate_encryption(h) ==
    IF ~IsSome(h.content_encoding)
        THEN ApiErrorKind_InvalidEncryption(<<"Missing Content-Encoding header">>)
    ELSE LET content_encoding == Unwrap(h.content_encoding) IN
    IF content_encoding = str_aesgcm128
        THEN Try(validate_encryption_01_rules(h), Ok(<<>>))
    ELSE IF content_encoding = str_aesgcm
        THEN Try(validate_encryption_04_rules(h), Ok(<<>>))
    ELSE IF content_encoding = str_aes128gcm
        THEN Try(validate_encryption_06_rules(h), Ok(<<>>))
    ELSE ApiErrorKind_InvalidEncryption(<<"Unknown Content-Encoding header">>)

\* faulty variant: the parsed TTL is not capped
ttl_of_uncapped(req) ==
    LET raw == get_header(req, "ttl")
    IN  IF IsSome(raw) THEN i64_parse_ok(Unwrap(raw)) ELSE None

\* lines 53-56: the TTL header parsed and capped at MAX_TTL, None if unparsable
ttl_of(req) ==
    LET raw == get_header(req, "ttl")
        parsed == IF IsSome(raw) THEN i64_parse_ok(Unwrap(raw)) ELSE None
    IN  IF IsSome(parsed) THEN Some(min(Unwrap(parsed), I64(MAX_TTL))) ELSE None

\* faulty variant: the encryption headers are validated with or without a body
from_request_always_encrypted(req, has_data) ==
    LET headers ==
            [ ttl |-> ttl_of(req),
              topic |-> get_header(req, "topic"),
              content_encoding |-> get_header(req, "content-encoding"),
              encryption |-> get_header(req, "encryption"),
              encryption_key |-> get_header(req, "encryption-key"),
              crypto_key |-> get_header(req, "crypto-key") ]
        encryption == validate_encryption(headers)
    IN  IF ~encryption.ok
            THEN encryption
        ELSE IF validate(headers) = {}
            THEN Ok(headers)
        ELSE ApiErrorKind_Validation(validate(headers))

\* faulty variant: the TTL and Topic fields are validated first
from_request_fields_first(req, has_data) ==
    LET headers ==
            [ ttl |-> ttl_of(req),
              topic |-> get_header(req, "topic"),
              content_encoding |-> get_header(req, "content-encoding"),
              encryption |-> get_header(req, "encryption"),
              encryption_key |-> get_header(req, "encryption-key"),
              crypto_key |-> get_header(req, "crypto-key") ]
        encryption == IF has_data THEN validate_encryption(headers) ELSE Ok(<<>>)
    IN  IF validate(headers) # {}
            THEN ApiErrorKind_Validation(validate(headers))
        ELSE IF ~encryption.ok
            THEN encryption
        ELSE Ok(headers)

\* lines 51-82
from_request(req, has_data) ==
    LET headers ==
            [ ttl |-> ttl_of(req),
              topic |-> get_header(req, "topic"),
              content_encoding |-> get_header(req, "content-encoding"),
              encryption |-> get_header(req, "encryption"),
              encryption_key |-> get_header(req, "encryption-key"),
              crypto_key |-> get_header(req, "crypto-key") ]
        encryption == IF has_data THEN validate_encryption(headers) ELSE Ok(<<>>)
    IN  IF ~encryption.ok
            THEN encryption
        ELSE IF validate(headers) = {}
            THEN Ok(headers)
        ELSE ApiErrorKind_Validation(validate(headers))

----------------------------------------------------------------------------
(* The requests from_request is applied to.                                *)

\* TTL header values: integers around 0, MAX_TTL and the 64-bit limits, and
\* values that are no integer
TtlHeaders ==
    { None,
      Some(<<"0">>),
      Some(<<"1", "0">>),
      Some(<<"-", "1">>),
      Some(<<"-", "0">>),
      Some(<<"+", "5">>),
      Some(<<"0", "0", "7">>),
      Some(<<"5", "1", "8", "3", "9", "9", "9">>),
      Some(<<"5", "1", "8", "4", "0", "0", "0">>),
      Some(<<"5", "1", "8", "4", "0", "0", "1">>),
      Some(<<"-", "5", "1", "8", "4", "0", "0", "1">>),
      Some(<<"9", "2", "2", "3", "3", "7", "2", "0", "3", "6", "8", "5", "4", "7", "7", "5", "8", "0", "7">>),
      Some(<<"9", "2", "2", "3", "3", "7", "2", "0", "3", "6", "8", "5", "4", "7", "7", "5", "8", "0", "8">>),
      Some(<<"-", "9", "2", "2", "3", "3", "7", "2", "0", "3", "6", "8", "5", "4", "7", "7", "5", "8", "0", "8">>),
      Some(<<"-", "9", "2", "2", "3", "3", "7", "2", "0", "3", "6", "8", "5", "4", "7", "7", "5", "8", "0", "9">>),
      Some(<<"1", "0", "0", "0", "0", "0", "0", "0", "0", "0", "0", "0", "0", "0", "0", "0", "0", "0", "0", "0">>),
      Some(<<>>),
      Some(<<"-">>),
      Some(<<"a", "b", "c">>),
      Some(<<"1", "a">>) }

\* n times the character ch
RECURSIVE Repeat(_, _)
Repeat(ch, n) == IF n = 0 THEN <<>> ELSE <<ch>> \o Repeat(ch, n - 1)

\* Topic header values: a short prefix followed by a run of "a" or of "=",
\* up to and beyond the limit of 32 characters
TopicPrefixes ==
    { <<>>,
      <<"a">>,
      <<"=">>,
      <<"!">>,
      <<"a", "=">>,
      <<"=", "a">>,
      <<"-", "_">>,
      <<"a", "!">>,
      <<"Z", "9">> }
TopicRuns == {0, 30, 31, 32}
TopicHeaders ==
    {None} \cup
    { Some(prefix \o Repeat(ch, n)) :
          prefix \in TopicPrefixes, ch \in {"a", "="}, n \in TopicRuns }

ContentEncodingHeaders ==
    { None,
      Some(<<"a", "e", "s", "g", "c", "m", "1", "2", "8">>),
      Some(<<"a", "e", "s", "g", "c", "m">>),
      Some(<<"a", "e", "s", "1", "2", "8", "g", "c", "m">>),
      Some(<<"A", "E", "S", "G", "C", "M">>) }

\* Encryption, Encryption-Key and Crypto-Key header values
KeyHeaders ==
    { None,
      Some(<<"s", "a", "l", "t", "=", "a">>),
      Some(<<"s", "a", "l", "t", "=", "!">>),
      Some(<<"s", "a", "l", "t", "=", "a", "=">>),
      Some(<<"d", "h", "=", "a">>),
      Some(<<"d", "h", "=", "!">>),
      Some(<<"x", "=", "a">>),
      Some(<<"s", "a", "l", "t">>),
      Some(<<"x", "=", "a", ";", "s", "a", "l", "t", "=", "a">>),
      Some(<<"d", "h", "=", "a", ",", "x", "=", "a">>),
      Some(<<"s", "a", "l", "t", "=", "a", ";", "x">>),
      Some(<<"d", "h", "=", "a", ";", "x">>) }

Headers(ttl, topic, content_encoding, encryption, encryption_key, crypto_key) ==
    "ttl" :> ttl @@ "topic" :> topic @@ "content-encoding" :> content_encoding @@
    "encryption" :> encryption @@ "encryption-key" :> encryption_key @@
    "crypto-key" :> crypto_key

\* every TTL and Topic, with and without a payload, under the encryption
\* headers of an aes128gcm message or none
FieldRequests ==
    { [headers |-> Headers(ttl, topic, ce, None, None, None), has_data |-> has_data] :
          ttl \in TtlHeaders, topic \in TopicHeaders,
          ce \in {None, Some(str_aes128gcm)}, has_data \in BOOLEAN }

\* every combination of the encryption headers, with and without a payload,
\* under a few TTL and Topic values, valid and not
EncryptionRequests ==
    { [headers |-> Headers(f[1], f[2], ce, encryption, encryption_key, crypto_key),
       has_data |-> has_data] :
          f \in { <<None, None>>,
                  <<Some(<<"1", "0">>), Some(<<"a">>)>>,
                  <<Some(<<"-", "1">>), None>>,
                  <<None, Some(<<"a", "!">>)>> },
          ce \in ContentEncodingHeaders,
          encryption \in KeyHeaders, encryption_key \in KeyHeaders,
          crypto_key \in KeyHeaders, has_data \in BOOLEAN }

HeadersInit ==
    /\ request \in FieldRequests \cup EncryptionRequests
    /\ extracted = None
    /\ pc = "from_request"
    /\ notification = None
    /\ user = None
    /\ calls = <<>>
    /\ metrics = <<>>
    /\ result = None
    /\ db = None

(* NotificationHeaders::from_request(req, has_data) *)
FromRequest ==
    /\ pc = "from_request"
    /\ extracted = None
    /\ extracted' = Some(from_request(request, request.has_data))
    /\ UNCHANGED <<pc, notification, user, calls, metrics, result, db, request>>

HeadersNext == FromRequest

HeadersSpec == HeadersInit /\ [][HeadersNext]_vars

----------------------------------------------------------------------------
(* What a request and the result of from_request say.                      *)

Extracted == IsSome(extracted)
Res == Unwrap(extracted)

\* the TTL header is the decimal writing of an integer: -?[0-9]+
TtlIsInteger ==
    /\ IsSome(request.headers["ttl"])
    /\ LET str == Unwrap(request.headers["ttl"])
           digits == IF str # <<>> /\ str[1] = "-" THEN Tail(str) ELSE str
       IN  digits # <<>> /\ \A i \in 1..Len(digits) : digits[i] \in Digit

\* the integer it writes, of any size
TtlInteger ==
    LET str == Unwrap(request.headers["ttl"])
        neg == str[1] = "-"
        mag == StripZeros(IF neg THEN Tail(str) ELSE str)
    IN  [neg |-> neg /\ mag # <<"0">>, mag |-> mag]

\* -2^63 <= t <= 2^63 - 1
FitsI64(t) ==
    ~MagLess(IF t.neg THEN I64_MIN_MAG ELSE I64_MAX_MAG, t.mag)

\* the request is accepted once its TTL header is taken away
ValidButForTtl ==
    from_request([request EXCEPT !.headers["ttl"] = None], request.has_data).ok

\* the validation error carries exactly the given codes
ValidationFailed(codes) ==
    /\ ~Res.ok
    /\ Res.kind = "Validation"
    /\ {e.code : e \in Res.errors} = codes

\* what C14 says of the integer t
TtlRule(t) ==
    IF I64Less(t, I64(0))
        THEN /\ ValidationFailed({"114"})
             /\ \A e \in Res.errors : e.field = "ttl"
    ELSE IF ~I64Less(I64(MAX_TTL), t)
        THEN Res.ok /\ Res.value.ttl = Some(t)
    ELSE Res.ok /\ Res.value.ttl = Some(I64(5184000))

(* C14 as claimed: for every integer TTL header value t, the other headers *)
(* being valid: t < 0 fails with code "114"; 0 <= t <= MAX_TTL succeeds    *)
(* with ttl = t; t > MAX_TTL succeeds with ttl = MAX_TTL = 5,184,000.      *)
C14_TtlRuleForEveryInteger ==
    (Extracted /\ TtlIsInteger /\ ValidButForTtl) => TtlRule(TtlInteger)

(* C14 as amended: the same for every integer t of the 64-bit range        *)
(* -2^63 <= t <= 2^63 - 1; an integer outside that range is not parsed and *)
(* the TTL is absent: validation succeeds with ttl = None.                 *)
C14_TtlRuleForEveryI64 ==
    (Extracted /\ TtlIsInteger /\ ValidButForTtl) =>
        IF FitsI64(TtlInteger)
            THEN TtlRule(TtlInteger)
            ELSE Res.ok /\ Res.value.ttl = None

\* the largest 64-bit TTL is capped
C14_Witness ==
    /\ Extracted
    /\ request.headers["ttl"] = Some(I64_MAX_MAG)
    /\ Res.ok
    /\ Res.value.ttl = Some(I64(MAX_TTL))

\* the request is accepted once its Topic header is taken away
ValidButForTopic ==
    from_request([request EXCEPT !.headers["topic"] = None], request.has_data).ok

TopicIsPresent == IsSome(request.headers["topic"])
Topic == Unwrap(request.headers["topic"])

\* a character outside [0-9A-Za-z-_=]
TopicForeignChar ==
    \E i \in 1..Len(Topic) :
        Topic[i] \notin Digit \cup UpperCase \cup LowerCase \cup {"-", "_", "="}

\* an "=" that is followed by something other than "="
TopicInnerPad ==
    \E i, j \in 1..Len(Topic) : i < j /\ Topic[i] = "=" /\ Topic[j] # "="

\* no character before the padding: the empty string, or "=" only
TopicOnlyPad == \A i \in 1..Len(Topic) : Topic[i] = "="

\* the topic fails with code "113", or is returned unchanged
TopicRule(bad) ==
    IF bad
        THEN /\ ValidationFailed({"113"})
             /\ \A e \in Res.errors : e.field = "topic"
        ELSE Res.ok /\ Res.value.topic = Some(Topic)

(* C15 as claimed: for every Topic header string s, the empty string and   *)
(* the strings made only of "=" included, validation fails with code "113" *)
(* iff len(s) > 32 or s has a character outside [0-9A-Za-z-_=] or an "="   *)
(* that is not part of the trailing padding; every other s is returned     *)
(* unchanged as topic.                                                     *)
C15_TopicRuleForEveryString ==
    (Extracted /\ TopicIsPresent /\ ValidButForTopic) =>
        TopicRule(Len(Topic) > 32 \/ TopicForeignChar \/ TopicInnerPad)

(* C15 as amended: validation fails with code "113" iff len(s) > 32 or s   *)
(* is not one or more characters of [0-9A-Za-z-_] followed by zero or more *)
(* "=": the empty string and the strings made only of "=" fail too; every  *)
(* other s is returned unchanged as topic.                                 *)
C15_TopicRuleNeedsOneCharacter ==
    (Extracted /\ TopicIsPresent /\ ValidButForTopic) =>
        TopicRule(\/ Len(Topic) > 32
                  \/ TopicForeignChar
                  \/ TopicInnerPad
                  \/ TopicOnlyPad)

\* a padded topic of exactly 32 characters is returned unchanged
C15_Witness ==
    /\ Extracted
    /\ TopicIsPresent
    /\ Len(Topic) = 32
    /\ Topic[32] = "="
    /\ Res.ok
    /\ Res.value.topic = Some(Topic)

ContentEncoding == request.headers["content-encoding"]

\* the request fails with the invalid-encryption error of the given message
InvalidEncryption(message) ==
    /\ ~Res.ok
    /\ Res.kind = "InvalidEncryption"
    /\ Res.message = message

EncryptionFailed == ~Res.ok /\ Res.kind = "InvalidEncryption"

\* the request without its four encryption headers
WithoutEncryptionHeaders ==
    [request EXCEPT !.headers["content-encoding"] = None,
                    !.headers["encryption"] = None,
                    !.headers["encryption-key"] = None,
                    !.headers["crypto-key"] = None]

(* C16: the encryption headers are validated only when the request has a   *)
(* body. Without a body no combination of Content-Encoding, Encryption,    *)
(* Encryption-Key and Crypto-Key fails, and the request is accepted or     *)
(* refused as the same request without these headers is, with the same ttl *)
(* and topic or the same error. With a body, an absent Content-Encoding    *)
(* fails with "Missing Content-Encoding header", and one that is not       *)
(* exactly aesgcm128, aesgcm or aes128gcm with "Unknown Content-Encoding   *)
(* header"; one of these three fails with neither.                         *)
C16_EncryptionOnlyWithBody ==
    Extracted =>
        IF ~request.has_data
            THEN LET bare == from_request(WithoutEncryptionHeaders, FALSE)
                 IN  /\ ~EncryptionFailed
                     /\ Res.ok = bare.ok
                     /\ ~Res.ok => Res = bare
                     /\ Res.ok => /\ Res.value.ttl = bare.value.ttl
                                  /\ Res.value.topic = bare.value.topic
        ELSE IF ContentEncoding = None
            THEN InvalidEncryption(<<"Missing Content-Encoding header">>)
        ELSE IF Unwrap(ContentEncoding) \notin {str_aesgcm128, str_aesgcm, str_aes128gcm}
            THEN InvalidEncryption(<<"Unknown Content-Encoding header">>)
        ELSE /\ ~InvalidEncryption(<<"Missing Content-Encoding header">>)
             /\ ~InvalidEncryption(<<"Unknown Content-Encoding header">>)

\* without a body an unknown Content-Encoding and a malformed salt pass
C16_Witness ==
    /\ Extracted
    /\ ~request.has_data
    /\ ContentEncoding = Some(<<"A", "E", "S", "G", "C", "M">>)
    /\ request.headers["encryption"] = Some(<<"s", "a", "l", "t", "=", "!">>)
    /\ Res.ok

\* "the header contains the key": the header is present, its value is a list
\* of key=value items delimited by ";" or ",", and one of the items has the key
HeaderItems(name) == Split(Unwrap(request.headers[name]), {",", ";"})
ItemHasValue(item) == \E j \in 1..Len(item) : item[j] = "="
ItemKey(item) == Split(item, {"="})[1]
ItemValue(item) == SubSeq(item, Len(ItemKey(item)) + 2, Len(item))
IsKeyValueList(name) ==
    /\ IsSome(request.headers[name])
    /\ \A i \in DOMAIN HeaderItems(name) : ItemHasValue(HeaderItems(name)[i])
ContainsKey(name, key) ==
    /\ IsKeyValueList(name)
    /\ \E i \in DOMAIN HeaderItems(name) : ItemKey(HeaderItems(name)[i]) = key

\* the header contains the key, with a value that is valid URL-safe base64
ContainsBase64(name, key) ==
    /\ ContainsKey(name, key)
    /\ LET items == HeaderItems(name)
           i == CHOOSE i \in DOMAIN items :
                    /\ ItemKey(items[i]) = key
                    /\ \A j \in 1..(i - 1) : ItemKey(items[j]) # key
       IN  VALID_BASE64_URL_is_match(ItemValue(items[i]))

\* a request with a body and the given Content-Encoding has been validated
Encoded(content_encoding) ==
    /\ Extracted
    /\ request.has_data
    /\ ContentEncoding = Some(content_encoding)

(* C17 as claimed: with a body and Content-Encoding aesgcm128, encryption  *)
(* validation succeeds iff the Encryption header contains a salt key with  *)
(* a valid URL-safe base64 value, the Encryption-Key header contains a dh  *)
(* key with such a value, and the Crypto-Key header does not contain a dh  *)
(* key.                                                                    *)
C17_Draft01Rules ==
    Encoded(str_aesgcm128) =>
        (~EncryptionFailed <=>
            /\ ContainsBase64("encryption", str_salt)
            /\ ContainsBase64("encryption-key", str_dh)
            /\ ~ContainsKey("crypto-key", str_dh))

(* C17 as amended: the same, but the Crypto-Key header must be absent or   *)
(* be a list of key=value items that has no dh key: a Crypto-Key header    *)
(* that is no such list fails too.                                         *)
C17_Draft01RulesCryptoKeyParsed ==
    Encoded(str_aesgcm128) =>
        (~EncryptionFailed <=>
            /\ ContainsBase64("encryption", str_salt)
            /\ ContainsBase64("encryption-key", str_dh)
            /\ \/ request.headers["crypto-key"] = None
               \/ /\ IsKeyValueList("crypto-key")
                  /\ ~ContainsKey("crypto-key", str_dh))

\* a draft 01 message with its salt, its dh and a Crypto-Key without dh
C17_Witness ==
    /\ Encoded(str_aesgcm128)
    /\ request.headers["encryption"] =
           Some(<<"x", "=", "a", ";", "s", "a", "l", "t", "=", "a">>)
    /\ request.headers["encryption-key"] =
           Some(<<"d", "h", "=", "a", ",", "x", "=", "a">>)
    /\ request.headers["crypto-key"] = Some(<<"x", "=", "a">>)
    /\ Res.ok

(* C18: with a body and Content-Encoding aesgcm, encryption validation     *)
(* succeeds iff the Encryption header contains a salt key with a valid     *)
(* URL-safe base64 value, the Encryption-Key header is absent, whatever it *)
(* would hold, and the Crypto-Key header is absent or contains a dh key    *)
(* with a valid URL-safe base64 value.                                     *)
C18_Draft04Rules ==
    Encoded(str_aesgcm) =>
        (~EncryptionFailed <=>
            /\ ContainsBase64("encryption", str_salt)
            /\ request.headers["encryption-key"] = None
            /\ \/ request.headers["crypto-key"] = None
               \/ ContainsBase64("crypto-key", str_dh))

\* a draft 04 message with a padded salt and a dh among other keys
C18_Witness ==
    /\ Encoded(str_aesgcm)
    /\ request.headers["encryption"] = Some(<<"s", "a", "l", "t", "=", "a", "=">>)
    /\ request.headers["encryption-key"] = None
    /\ request.headers["crypto-key"] = Some(<<"d", "h", "=", "a", ",", "x", "=", "a">>)
    /\ Res.ok

(* C19 as claimed: with a body and Content-Encoding aes128gcm, encryption  *)
(* validation fails iff the Encryption header contains a salt key or the   *)
(* Crypto-Key header contains a dh key; the absence of either header,      *)
(* other keys in them and any Encryption-Key header are accepted.          *)
C19_Draft06Rules ==
    Encoded(str_aes128gcm) =>
        (EncryptionFailed <=>
            \/ ContainsKey("encryption", str_salt)
            \/ ContainsKey("crypto-key", str_dh))

(* C19 as amended: validation fails iff the Encryption header is present   *)
(* and either is no list of key=value items or contains a salt key, or the *)
(* Crypto-Key header is present and either is no such list or contains a   *)
(* dh key; any Encryption-Key header is accepted.                          *)
C19_Draft06RulesHeadersParsed ==
    Encoded(str_aes128gcm) =>
        (EncryptionFailed <=>
            \/ /\ IsSome(request.headers["encryption"])
               /\ ~IsKeyValueList("encryption") \/ ContainsKey("encryption", str_salt)
            \/ /\ IsSome(request.headers["crypto-key"])
               /\ ~IsKeyValueList("crypto-key") \/ ContainsKey("crypto-key", str_dh))

\* a draft 06 message with other keys in its headers and an Encryption-Key
C19_Witness ==
    /\ Encoded(str_aes128gcm)
    /\ request.headers["encryption"] = Some(<<"x", "=", "a">>)
    /\ request.headers["encryption-key"] = Some(<<"s", "a", "l", "t", "=", "!">>)
    /\ request.headers["crypto-key"] = Some(<<"s", "a", "l", "t", "=", "a">>)
    /\ Res.ok

----------------------------------------------------------------------------
(* C21: every response route_notification returns is either status 200     *)
(* with the message_data metric tagged destination=Direct or status 202    *)
(* with the metric tagged destination=Stored; the metric is sent exactly    *)
(* once per returned response, as the response is returned and not before, *)
(* and a call that ends in an error has built no response and sent no      *)
(* message_data metric.                                                    *)
C21_ResponseAndMetricAgree ==
    /\ ~Returned => MessageData = <<>>
    /\ (Returned /\ Unwrap(result).ok) => ReturnedDirect \/ ReturnedStored
    /\ (Returned /\ ~Unwrap(result).ok) =>
           /\ MessageData = <<>>
           /\ "response" \notin DOMAIN Unwrap(result)

\* a stored response after a node removal, whose metrics hold host_gone too
C21_Witness ==
    /\ ReturnedStored
    /\ Len(metrics) = 3
    /\ MessageData[1].count = 3

(* C22: the response is justified by what happened in the same call. The   *)
(* Stored (202) response is returned only after a store_message call that  *)
(* succeeded; the Direct (200) response is returned only if a node         *)
(* answered 200 to the direct-delivery call or to the recheck call, and in *)
(* the recheck case a store_message call succeeded before the recheck and  *)
(* the notification is in storage.                                         *)
C22_ResponseIsJustified ==
    /\ ReturnedStored =>
           \E i \in CallIdx("store_message") : calls[i].res.ok
    /\ ReturnedDirect =>
           \/ DirectDelivered
           \/ \E j \in CallIdx("trigger_notification_check") :
                  /\ calls[j].res.ok
                  /\ calls[j].res.status = 200
                  /\ LastCall(j)
                  /\ \E i \in CallIdx("store_message") : i < j /\ calls[i].res.ok
                  /\ Len(db.messages) = 1
    /\ (Returned /\ Unwrap(result).ok /\ Unwrap(result).response.status = 202) =>
           \E i \in CallIdx("store_message") : calls[i].res.ok
    /\ (Returned /\ Unwrap(result).ok /\ Unwrap(result).response.status = 200) =>
           DirectDelivered \/ RecheckDelivered

\* the node refused the delivery and then answered 200 to the recheck
C22_Witness ==
    /\ ReturnedDirect
    /\ DirectRefused
    /\ RecheckDelivered
    /\ Count("store_message") = 1

----------------------------------------------------------------------------
\* the request breaks an encryption rule, whatever its TTL and Topic
EncryptionRuleBroken ==
    /\ request.has_data
    /\ ~from_request([request EXCEPT !.headers["ttl"] = None,
                                     !.headers["topic"] = None], TRUE).ok

\* the request breaks a TTL or Topic rule, whatever its encryption headers
FieldRuleBroken == ~from_request(WithoutEncryptionHeaders, FALSE).ok

(* C23: encryption validation runs before TTL and Topic validation and the *)
(* first failure wins. A request with a body that breaks an encryption     *)
(* rule and a TTL or Topic rule fails with the invalid-encryption error,   *)
(* never with the field-validation error of code "114" or "113"; a request *)
(* that breaks only a TTL or Topic rule fails with the field-validation    *)
(* error; and no failure returns a NotificationHeaders value.              *)
C23_EncryptionFailureWins ==
    Extracted =>
        /\ (EncryptionRuleBroken /\ FieldRuleBroken) =>
               /\ EncryptionFailed
               /\ Res = from_request([request EXCEPT !.headers["ttl"] = None,
                                                     !.headers["topic"] = None], TRUE)
        /\ (~EncryptionRuleBroken /\ FieldRuleBroken) =>
               /\ ~Res.ok
               /\ Res.kind = "Validation"
               /\ {e.code : e \in Res.errors} \subseteq {"113", "114"}
        /\ ~Res.ok => "value" \notin DOMAIN Res
        /\ Res.ok <=> ~EncryptionRuleBroken /\ ~FieldRuleBroken

\* a negative TTL on a draft 04 message that has no Encryption header
C23_Witness ==
    /\ Encoded(str_aesgcm)
    /\ request.headers["ttl"] = Some(<<"-", "1">>)
    /\ request.headers["encryption"] = None
    /\ InvalidEncryption(<<"Missing ", "Encryption", " header">>)

====
